---- MODULE Spec2Model ----
(***************************************************************************)
(* Build scheduler and build-node lifecycle of repomgmt/models.py:         *)
(* BuildRecord.perform_single_build / pick_build and BuildNode.start_new / *)
(* prepare / build / delete, run by several scheduler processes against    *)
(* one shared store, one cloud provider account and one local keyring.     *)
(*                                                                         *)
(* Fault model.  Fallible: creating a provider resource, attaching a       *)
(* floating address, a remote command (connection or exit status), the     *)
(* key-id capture, the local key import and the repository republish.      *)
(* Deterministic failures: looking up a server or address that no longer   *)
(* exists (NotFound), revoking a key the local keyring does not hold (gpg  *)
(* exits non-zero), BuildNode.update_state (BuildNode has no id field).    *)
(* Deleting an existing provider resource succeeds, and so does every      *)
(* read and write of the store.                                            *)
(***************************************************************************)
EXTENDS Integers, FiniteSets, Sequences, TLC

\* ---------------------------------------------------------------- bounds
NumSched == 2
NumRecords == 3

Schedulers == 1..NumSched
Records == 1..NumRecords
\* The pool random.randint draws 'buildd-%d' names from; one per scheduler
\* is enough for a free name always to exist.
Names == 1..NumSched
\* Priorities the records of a claim race are drawn from.
Prios == {10, 30, 50}

\* ------------------------------------------------------ program constants
Null == 0
BUILDING == 1
SUCCESFULLY_BUILT == 2
NEEDS_BUILDING == 8
DEFAULT_PRIORITY == 100
NODE_NEW == 0
NODE_BOOTING == 1
NODE_PREPARING == 2
NODE_READY == 3
NODE_BUILDING == 4
NODE_SHUTTING_DOWN == 5

VARIABLES
    rec,            \* BuildRecord table: id -> row
    node,           \* BuildNode table: name (primary key) -> row
    keypair_set,    \* KeyPair rows of the cloud, in creation order
    servers,        \* provider: server id -> its name, Null when not live
    provider_keypairs, \* provider: the key pairs created there
    floating_ips,   \* provider: allocated floating addresses
    attached,       \* provider: floating addresses attached to their server
    keyring,        \* local gpg keyring: the key ids it holds
    USE_FLOATING_IPS, \* settings.USE_FLOATING_IPS
    pc,             \* each scheduler's position
    name,           \* bn.name of the scheduler's in-memory BuildNode
    signing_key_id, \* bn.signing_key_id of the in-memory BuildNode
    keypair,        \* start_new's local keypair
    br,             \* perform_single_build's br
    next_build,     \* pick_build's next_build
    builds,         \* pick_build's candidate read
    exc,            \* the exception that ended the run, "" when none
    deletes,        \* how many times delete() was entered on the scheduler's node
    failed_at,      \* the step of prepare whose failure its handler caught, "" when none
    chan,           \* run_cmd: the output the channel has yet to deliver
    status,         \* run_cmd: the exit status of the remote command
    run_pc,         \* the position of the _run_cmd call
    out,            \* _run_cmd's out
    lbuf,           \* _run_cmd's lbuf
    logged,         \* the lines _run_cmd has logged
    yielded,        \* the chunks run_cmd has yielded
    returned        \* the value the caller of _run_cmd holds

store == <<rec, node, keypair_set>>
provider == <<servers, provider_keypairs, floating_ips, attached>>
locals == <<name, signing_key_id, keypair, br, next_build, builds>>
history == <<deletes, failed_at>>
transport == <<chan, status, run_pc, out, lbuf, logged, yielded, returned>>
vars == <<rec, node, keypair_set, servers, provider_keypairs, floating_ips,
          attached, keyring, USE_FLOATING_IPS, pc, name, signing_key_id,
          keypair, br, next_build, builds, exc, deletes, failed_at,
          chan, status, run_pc, out, lbuf, logged, yielded, returned>>

\* A server, a floating address and a signing key are identified by the
\* scheduler whose run created them (each run creates at most one of each).

\* ------------------------------------------------------------ the tables
NoRecord == [live |-> FALSE, state |-> 0, priority |-> 0, build_node |-> Null]
NoNode == [live |-> FALSE, state |-> 0, signing_key_id |-> Null, cloud_node_id |-> Null]

NewRecord(p) ==
    [live |-> TRUE, state |-> NEEDS_BUILDING, priority |-> p, build_node |-> Null]

\* Model.save() of the in-memory BuildNode of scheduler s: the whole row is
\* written under its primary key, inserted when absent, overwritten otherwise.
SavedNode(s, st) ==
    [node EXCEPT ![name[s]] = [live |-> TRUE, state |-> st,
                               signing_key_id |-> signing_key_id[s],
                               cloud_node_id |-> s]]

\* No _run_cmd call is under observation.
NoCall ==
    /\ chan = <<>>
    /\ status = 0
    /\ run_pc = "idle"
    /\ out = <<>>
    /\ lbuf = <<>>
    /\ logged = <<>>
    /\ yielded = <<>>
    /\ returned = <<>>

pending_builds_any_node ==
    {r \in Records : rec[r].live /\ rec[r].state = NEEDS_BUILDING}

\* cls.objects.filter(state=cls.NEEDS_BUILDING, build_node__isnull=True)
pending_builds ==
    {r \in Records : rec[r].live /\ rec[r].state = NEEDS_BUILDING
                     /\ rec[r].build_node = Null}

pending_build_count == Cardinality(pending_builds)

\* builds.order_by('-priority')[0]: the rows of highest priority (which of
\* several equal ones comes first is the database's choice).
FirstMin(S) == {r \in S : \A q \in S : rec[r].priority <= rec[q].priority}
First(S) == {r \in S : \A q \in S : rec[r].priority >= rec[q].priority}

Raise(s, e) == /\ pc' = [pc EXCEPT ![s] = "raised"]
               /\ exc' = [exc EXCEPT ![s] = e]
Goto(s, l) == /\ pc' = [pc EXCEPT ![s] = l]
              /\ UNCHANGED exc

\* ------------------------------------------------- perform_single_build
Start(s) ==
    /\ pc[s] = "start"
    /\ IF pending_build_count > 0 THEN Goto(s, "sn_keypair") ELSE Goto(s, "done")
    /\ UNCHANGED <<store, provider, keyring, USE_FLOATING_IPS, transport, locals, history>>

\* ------------------------------------------------------------- start_new
\* cloud.keypair_set.count()
keypair_count_less_one == Len(keypair_set) - 1
keypair_count == Len(keypair_set)

\* cloud.keypair_set.count() < 1, else keypair = cloud.keypair_set.all()[0]
SnKeypair(s) ==
    /\ pc[s] = "sn_keypair"
    /\ IF keypair_count < 1
         THEN /\ UNCHANGED keypair
              /\ Goto(s, "sn_keypair_create")
         ELSE /\ keypair' = [keypair EXCEPT ![s] = Head(keypair_set)]
              /\ Goto(s, "sn_name")
    /\ UNCHANGED <<store, provider, keyring, USE_FLOATING_IPS, transport, name,
                   signing_key_id, br, next_build, builds, history>>

\* cl.keypairs.create(name=name); keypair.save()
SnKeypairCreate(s) ==
    /\ pc[s] = "sn_keypair_create"
    /\ \/ /\ provider_keypairs' = provider_keypairs \cup {s}
          /\ keypair_set' = Append(keypair_set, s)
          /\ keypair' = [keypair EXCEPT ![s] = s]
          /\ Goto(s, "sn_name")
       \/ /\ UNCHANGED <<provider_keypairs, keypair_set, keypair>>
          /\ Raise(s, "ProvisioningFailure")
    /\ UNCHANGED <<rec, node, servers, floating_ips, attached, keyring,
                   USE_FLOATING_IPS, transport, name, signing_key_id, br, next_build,
                   builds, history>>

\* get_unique_buildnode_name: a random name that is neither a live server's
\* nor a BuildNode row's at the time of the two listings.
names_to_avoid ==
    {servers[v] : v \in Schedulers} \cup {n \in Names : node[n].live}

SnName(s) ==
    /\ pc[s] = "sn_name"
    /\ \E n \in Names \ names_to_avoid : name' = [name EXCEPT ![s] = n]
    /\ Goto(s, "sn_server")
    /\ UNCHANGED <<store, provider, keyring, USE_FLOATING_IPS, transport,
                   signing_key_id, keypair, br, next_build, builds, history>>

\* srv = cl.servers.create(name, image, flavor, key_name=keypair.name)
SnServer(s) ==
    /\ pc[s] = "sn_server"
    /\ \/ /\ servers' = [servers EXCEPT ![s] = name[s]]
          /\ Goto(s, IF USE_FLOATING_IPS THEN "sn_floating_ip" ELSE "sn_save")
       \/ /\ UNCHANGED servers
          /\ Raise(s, "ProvisioningFailure")
    /\ UNCHANGED <<store, provider_keypairs, floating_ips, attached, keyring,
                   USE_FLOATING_IPS, transport, locals, history>>

\* floating_ip = cl.floating_ips.create()
SnFloatingIp(s) ==
    /\ pc[s] = "sn_floating_ip"
    /\ \/ /\ floating_ips' = floating_ips \cup {s}
          /\ Goto(s, "sn_attach")
       \/ /\ UNCHANGED floating_ips
          /\ Raise(s, "ProvisioningFailure")
    /\ UNCHANGED <<store, servers, provider_keypairs, attached, keyring,
                   USE_FLOATING_IPS, transport, locals, history>>

\* Where start_new goes after the attachment loop, by its succeeded flag.
AfterAttachAlways(succeeded) == "sn_save"
AfterAttach(succeeded) == IF succeeded THEN "sn_save" ELSE "sn_fail_server"

\* The 20-second loop of srv.add_floating_ip attempts: succeeded is whether
\* any attempt went through.
SnAttach(s) ==
    /\ pc[s] = "sn_attach"
    /\ \E succeeded \in BOOLEAN :
         /\ attached' = IF succeeded THEN attached \cup {s} ELSE attached
         /\ Goto(s, AfterAttach(succeeded))
    /\ UNCHANGED <<store, servers, provider_keypairs, floating_ips, keyring,
                   USE_FLOATING_IPS, transport, locals, history>>

\* srv.delete()
SnFailServer(s) ==
    /\ pc[s] = "sn_fail_server"
    /\ servers' = [servers EXCEPT ![s] = Null]
    /\ Goto(s, "sn_fail_floating_ip")
    /\ UNCHANGED <<store, provider_keypairs, floating_ips, attached, keyring,
                   USE_FLOATING_IPS, transport, locals, history>>

\* floating_ip.delete(); raise Exception('Failed to spawn node')
SnFailFloatingIp(s) ==
    /\ pc[s] = "sn_fail_floating_ip"
    /\ floating_ips' = floating_ips \ {s}
    /\ Raise(s, "Failed to spawn node")
    /\ UNCHANGED <<store, servers, provider_keypairs, attached, keyring,
                   USE_FLOATING_IPS, transport, locals, history>>

\* bn = BuildNode(name=name, cloud=cloud, cloud_node_id=srv.id); bn.save()
SnSave(s) ==
    /\ pc[s] = "sn_save"
    /\ node' = SavedNode(s, NODE_NEW)
    /\ Goto(s, "pick_read")
    /\ UNCHANGED <<rec, keypair_set, provider, keyring, USE_FLOATING_IPS, transport,
                   locals, history>>

start_new(s) ==
    \/ SnKeypair(s) \/ SnKeypairCreate(s) \/ SnName(s) \/ SnServer(s)
    \/ SnFloatingIp(s) \/ SnAttach(s) \/ SnFailServer(s)
    \/ SnFailFloatingIp(s) \/ SnSave(s)

\* ------------------------------------------------------------ pick_build
PickRead(s) ==
    /\ pc[s] = "pick_read"
    /\ builds' = [builds EXCEPT ![s] = pending_builds]
    /\ IF pending_builds = {}
         THEN /\ br' = [br EXCEPT ![s] = Null]
              /\ next_build' = [next_build EXCEPT ![s] = Null]
              /\ Goto(s, "prepare")
         ELSE /\ \E r \in First(pending_builds) :
                    next_build' = [next_build EXCEPT ![s] = r]
              /\ UNCHANGED br
              /\ Goto(s, "pick_update")
    /\ UNCHANGED <<store, provider, keyring, USE_FLOATING_IPS, transport, name,
                   signing_key_id, keypair, history>>

\* filter(id=next_build.id, build_node__isnull=True).update(build_node=...):
\* one UPDATE statement; the rows it matches.
UpdateMatchesAny(r) == {q \in {r} : rec[q].live}
UpdateMatchesNone(r) == {}
UpdateMatchesAll(r) == {q \in Records : rec[q].live /\ rec[q].build_node = Null}
UpdateMatches(r) == {q \in {r} : rec[q].live /\ rec[q].build_node = Null}

PickUpdate(s) ==
    /\ pc[s] = "pick_update"
    /\ LET m == UpdateMatches(next_build[s]) IN
         /\ rec' = [r \in Records |->
                      IF r \in m THEN [rec[r] EXCEPT !.build_node = name[s]]
                                 ELSE rec[r]]
         /\ IF Cardinality(m) # 1 THEN Goto(s, "pick_read")
                                  ELSE Goto(s, "pick_get")
    /\ UNCHANGED <<node, keypair_set, provider, keyring, USE_FLOATING_IPS, transport,
                   locals, history>>

\* return cls.objects.get(id=next_build.id): DoesNotExist when the row is gone
PickGet(s) ==
    /\ pc[s] = "pick_get"
    /\ IF rec[next_build[s]].live
         THEN /\ br' = [br EXCEPT ![s] = next_build[s]]
              /\ Goto(s, "prepare")
         ELSE /\ UNCHANGED br
              /\ Raise(s, "DoesNotExist")
    /\ UNCHANGED <<store, provider, keyring, USE_FLOATING_IPS, transport, name,
                   signing_key_id, keypair, next_build, builds, history>>

pick_build(s) == PickRead(s) \/ PickUpdate(s) \/ PickGet(s)

\* ------------------------------------------- the claim race on its own
\* N schedulers, each holding a leased node of its own, call pick_build
\* against a store of records in any state and of any priority.
RaceRecords ==
    {[live |-> TRUE, state |-> st, priority |-> p, build_node |-> Null] :
        st \in {NEEDS_BUILDING, BUILDING, SUCCESFULLY_BUILT}, p \in Prios}

InitPick ==
    /\ rec \in [Records -> RaceRecords]
    /\ node = [n \in Names |-> [live |-> TRUE, state |-> NODE_NEW,
                                signing_key_id |-> Null, cloud_node_id |-> n]]
    /\ keypair_set = <<1>>
    /\ servers = [v \in Schedulers |-> v]
    /\ provider_keypairs = {1}
    /\ floating_ips = {}
    /\ attached = {}
    /\ keyring = {}
    /\ USE_FLOATING_IPS = FALSE
    /\ pc = [s \in Schedulers |-> "pick_read"]
    /\ name = [s \in Schedulers |-> s]
    /\ signing_key_id = [s \in Schedulers |-> Null]
    /\ keypair = [s \in Schedulers |-> 1]
    /\ br = [s \in Schedulers |-> Null]
    /\ next_build = [s \in Schedulers |-> Null]
    /\ builds = [s \in Schedulers |-> {}]
    /\ exc = [s \in Schedulers |-> ""]
    /\ deletes = [s \in Schedulers |-> 0]
    /\ failed_at = [s \in Schedulers |-> ""]
    /\ NoCall

NextPick == \E s \in Schedulers : pick_build(s)

SpecPick == InitPick /\ [][NextPick]_vars

\* A call of pick_build is under way.
InPick(s) == pc[s] \in {"pick_read", "pick_update", "pick_get"}

\* --------------------------------------------------------------- delete
DeleteEntry == IF USE_FLOATING_IPS THEN "del_floating_ip" ELSE "del_server"

\* a call of self.delete()
CallDelete(s) ==
    /\ Goto(s, DeleteEntry)
    /\ deletes' = [deletes EXCEPT ![s] = @ + 1]

\* self.ip and floating_ips.find (NotFound when the server or the address is
\* gone), remove_floating_ip, ref.delete()
DelFloatingIp(s) ==
    /\ pc[s] = "del_floating_ip"
    /\ IF servers[s] # Null /\ s \in attached /\ s \in floating_ips
         THEN /\ attached' = attached \ {s}
              /\ floating_ips' = floating_ips \ {s}
              /\ Goto(s, "del_server")
         ELSE /\ UNCHANGED <<attached, floating_ips>>
              /\ Raise(s, "NotFound")
    /\ UNCHANGED <<store, servers, provider_keypairs, keyring,
                   USE_FLOATING_IPS, transport, locals, history>>

\* self.cloud_server.delete(): servers.get(cloud_node_id) raises NotFound
\* when the server is gone
DelServer(s) ==
    /\ pc[s] = "del_server"
    /\ IF servers[s] # Null
         THEN /\ servers' = [servers EXCEPT ![s] = Null]
              /\ Goto(s, "del_key")
         ELSE /\ UNCHANGED servers
              /\ Raise(s, "NotFound")
    /\ UNCHANGED <<store, provider_keypairs, floating_ips, attached, keyring,
                   USE_FLOATING_IPS, transport, locals, history>>

\* utils.run_cmd(['gpg', '--batch', '--yes', '--delete-keys', key]) raises
\* when gpg exits non-zero, as it does for a key the keyring does not hold.
GpgDeleteFails(k) == k \notin keyring

\* if self.signing_key_id: gpg --delete-keys
DelKey(s) ==
    /\ pc[s] = "del_key"
    /\ IF signing_key_id[s] = Null
         THEN /\ UNCHANGED keyring
              /\ Goto(s, "del_refs")
         ELSE IF GpgDeleteFails(signing_key_id[s])
                THEN /\ UNCHANGED keyring
                     /\ Raise(s, "CommandFailed")
                ELSE /\ keyring' = keyring \ {signing_key_id[s]}
                     /\ Goto(s, "del_refs")
    /\ UNCHANGED <<store, provider, USE_FLOATING_IPS, transport, locals, history>>

\* self.buildrecord_set: the rows whose build_node is this node's name
buildrecord_set(s) ==
    {r \in Records : rec[r].live /\ rec[r].build_node = name[s]}

\* self.buildrecord_set.all().update(build_node=None)
DelRefs(s) ==
    /\ pc[s] = "del_refs"
    /\ rec' = [r \in Records |->
                 IF r \in buildrecord_set(s)
                   THEN [rec[r] EXCEPT !.build_node = Null] ELSE rec[r]]
    /\ Goto(s, "del_row")
    /\ UNCHANGED <<node, keypair_set, provider, keyring, USE_FLOATING_IPS, transport,
                   locals, history>>

\* super(BuildNode, self).delete(): the row of this primary key goes, and
\* with it (ForeignKey's cascade) every BuildRecord row still referring to it.
DelRow(s) ==
    /\ pc[s] = "del_row"
    /\ node' = [node EXCEPT ![name[s]] = NoNode]
    /\ rec' = [r \in Records |->
                 IF r \in buildrecord_set(s) THEN NoRecord ELSE rec[r]]
    /\ Goto(s, "prepare_returned")
    /\ UNCHANGED <<keypair_set, provider, keyring, USE_FLOATING_IPS, transport, locals,
                   history>>

delete(s) ==
    DelFloatingIp(s) \/ DelServer(s) \/ DelKey(s) \/ DelRefs(s) \/ DelRow(s)

\* -------------------------------------------------------------- prepare
PrepareFailedGoesOn(s, step) ==
    /\ Goto(s, "prep_publish")
    /\ UNCHANGED deletes
    /\ failed_at' = [failed_at EXCEPT ![s] = step]

\* except Exception: logger.info(...); self.delete()
PrepareFailed(s, step) ==
    /\ CallDelete(s)
    /\ failed_at' = [failed_at EXCEPT ![s] = step]

\* self.state = self.BOOTING; self.save()
Prepare(s) ==
    /\ pc[s] = "prepare"
    /\ node' = SavedNode(s, NODE_BOOTING)
    /\ next_build' = [next_build EXCEPT ![s] = Null]
    /\ builds' = [builds EXCEPT ![s] = {}]
    /\ Goto(s, "prep_id")
    /\ UNCHANGED <<rec, keypair_set, provider, keyring, USE_FLOATING_IPS, transport,
                   name, signing_key_id, keypair, br, history>>

\* self._run_cmd('id') failed: print e; time.sleep(5); again
PrepIdRetry(s) ==
    /\ pc[s] = "prep_id"
    /\ UNCHANGED vars

\* self._run_cmd('id') went through: self.state = self.PREPARING; self.save()
PrepId(s) ==
    /\ pc[s] = "prep_id"
    /\ servers[s] # Null
    /\ node' = SavedNode(s, NODE_PREPARING)
    /\ Goto(s, "prep_cmds")
    /\ UNCHANGED <<rec, keypair_set, provider, keyring, USE_FLOATING_IPS, transport,
                   locals, history>>

\* apt-get update, install puppet, wget puppet.pp (build_record.id: an
\* AttributeError when build_record is None), puppet apply, keygen.param
PrepCmds(s) ==
    /\ pc[s] = "prep_cmds"
    /\ \/ /\ br[s] # Null
          /\ Goto(s, "prep_keygen")
          /\ UNCHANGED history
       \/ PrepareFailed(s, "cmds")
    /\ UNCHANGED <<store, provider, keyring, USE_FLOATING_IPS, transport, locals>>

\* out = gpg --gen-key; the 'gpg: key ' line gives key_id (none: key_id is
\* unbound, a NameError); self.signing_key_id = key_id
PrepKeygen(s) ==
    /\ pc[s] = "prep_keygen"
    /\ \/ /\ signing_key_id' = [signing_key_id EXCEPT ![s] = s]
          /\ Goto(s, "prep_export")
          /\ UNCHANGED history
       \/ /\ UNCHANGED signing_key_id
          /\ PrepareFailed(s, "keygen")
    /\ UNCHANGED <<store, provider, keyring, USE_FLOATING_IPS, transport, name, keypair,
                   br, next_build, builds>>

\* public_key_data = self._run_cmd('gpg -a --export ...')
PrepExport(s) ==
    /\ pc[s] = "prep_export"
    /\ \/ /\ Goto(s, "prep_import")
          /\ UNCHANGED history
       \/ PrepareFailed(s, "export")
    /\ UNCHANGED <<store, provider, keyring, USE_FLOATING_IPS, transport, locals>>

\* utils.run_cmd(['gpg', '--import'], input=public_key_data)
PrepImport(s) ==
    /\ pc[s] = "prep_import"
    /\ \/ /\ keyring' = keyring \cup {signing_key_id[s]}
          /\ Goto(s, "prep_ready")
          /\ UNCHANGED history
       \/ /\ UNCHANGED keyring
          /\ PrepareFailed(s, "import")
    /\ UNCHANGED <<store, provider, USE_FLOATING_IPS, transport, locals>>

\* self.state = self.READY; self.save()
PrepReady(s) ==
    /\ pc[s] = "prep_ready"
    /\ node' = SavedNode(s, NODE_READY)
    /\ Goto(s, "prep_publish")
    /\ UNCHANGED <<rec, keypair_set, provider, keyring, USE_FLOATING_IPS, transport,
                   locals, history>>

\* build_record.series.repository.write_configuration()
PrepPublish(s) ==
    /\ pc[s] = "prep_publish"
    /\ \/ /\ Goto(s, "prepare_returned")
          /\ UNCHANGED history
       \/ PrepareFailed(s, "publish")
    /\ UNCHANGED <<store, provider, keyring, USE_FLOATING_IPS, transport, locals>>

prepare(s) ==
    \/ Prepare(s) \/ PrepIdRetry(s) \/ PrepId(s) \/ PrepCmds(s)
    \/ PrepKeygen(s) \/ PrepExport(s) \/ PrepImport(s) \/ PrepReady(s)
    \/ PrepPublish(s)

\* ---------------------------------------------------------------- build
\* BuildNode.update_state: filter(id=self.id) on a model whose primary key
\* is name and which therefore has no id attribute: an AttributeError.
update_state_error == "AttributeError"

BuildMarksBuilding(s) ==
    /\ pc[s] = "prepare_returned"
    /\ rec' = [r \in Records |->
                 IF r = br[s] /\ rec[r].live
                   THEN [rec[r] EXCEPT !.state = BUILDING]
                   ELSE rec[r]]
    /\ Raise(s, update_state_error)
    /\ UNCHANGED <<node, keypair_set, provider, keyring, USE_FLOATING_IPS,
                   transport, locals, history>>

BuildMarksBuilt(s) ==
    /\ pc[s] = "prepare_returned"
    /\ rec' = [r \in Records |->
                 IF r = br[s] /\ rec[r].live
                   THEN [rec[r] EXCEPT !.state = SUCCESFULLY_BUILT]
                   ELSE rec[r]]
    /\ Goto(s, "done")
    /\ UNCHANGED <<node, keypair_set, provider, keyring, USE_FLOATING_IPS,
                   transport, locals, history>>

\* bn.build(br): its first statement, self.update_state(BuildNode.BUILDING),
\* raises outside build's try, and the exception leaves perform_single_build.
Build(s) ==
    /\ pc[s] = "prepare_returned"
    /\ Raise(s, update_state_error)
    /\ UNCHANGED <<store, provider, keyring, USE_FLOATING_IPS, transport, locals, history>>

\* ------------------------------------------------------- the scheduler runs
\* The store holds any number of pending records, each of the default
\* priority (so that any of them may be the first of the ordering), and the
\* cloud has no node and no key pair yet.
Init ==
    /\ \E k \in 0..NumRecords :
          rec = [r \in Records |->
                   IF r <= k THEN NewRecord(DEFAULT_PRIORITY) ELSE NoRecord]
    /\ node = [n \in Names |-> NoNode]
    /\ keypair_set = <<>>
    /\ servers = [v \in Schedulers |-> Null]
    /\ provider_keypairs = {}
    /\ floating_ips = {}
    /\ attached = {}
    /\ keyring = {}
    /\ USE_FLOATING_IPS \in BOOLEAN
    /\ pc = [s \in Schedulers |-> "start"]
    /\ name = [s \in Schedulers |-> Null]
    /\ signing_key_id = [s \in Schedulers |-> Null]
    /\ keypair = [s \in Schedulers |-> Null]
    /\ br = [s \in Schedulers |-> Null]
    /\ next_build = [s \in Schedulers |-> Null]
    /\ builds = [s \in Schedulers |-> {}]
    /\ exc = [s \in Schedulers |-> ""]
    /\ deletes = [s \in Schedulers |-> 0]
    /\ failed_at = [s \in Schedulers |-> ""]
    /\ NoCall

perform_single_build(s) ==
    \/ Start(s) \/ start_new(s) \/ pick_build(s) \/ prepare(s) \/ delete(s)
    \/ Build(s)

Next == \E s \in Schedulers : perform_single_build(s)

Spec == Init /\ [][Next]_vars

\* ------------------------------------------------- the leases on their own
\* The runs up to the return of start_new.
NextLease == \E s \in Schedulers : Start(s) \/ start_new(s)

SpecLease == Init /\ [][NextLease]_vars

\* The runs with every caller of pick_build kept running: a process inside
\* pick_build goes on executing it.
FairSpec == Spec /\ \A s \in Schedulers : WF_vars(pick_build(s))

\* ------------------------------------------------- leases one after another
\* A call of start_new is under way.
InLease(s) ==
    pc[s] \in {"sn_keypair", "sn_keypair_create", "sn_name", "sn_server",
               "sn_floating_ip", "sn_attach", "sn_fail_server",
               "sn_fail_floating_ip", "sn_save"}

\* Sequential calls: a run starts, and steps, only while no other call of
\* start_new is under way.
NextSeq ==
    \E s \in Schedulers :
        /\ \A t \in Schedulers \ {s} : ~InLease(t)
        /\ (Start(s) \/ start_new(s))

SpecSeq == Init /\ [][NextSeq]_vars

\* ------------------------------------------ teardown called once more
\* How many times in all delete() is called on one node.
MaxDeletes == 2

\* A caller that holds the BuildNode object calls delete() again, after an
\* earlier delete() returned or raised part-way.
DeleteAgain(s) ==
    /\ pc[s] \in {"prepare_returned", "raised"}
    /\ deletes[s] >= 1
    /\ deletes[s] < MaxDeletes
    /\ pc' = [pc EXCEPT ![s] = DeleteEntry]
    /\ exc' = [exc EXCEPT ![s] = ""]
    /\ deletes' = [deletes EXCEPT ![s] = @ + 1]
    /\ UNCHANGED <<store, provider, keyring, USE_FLOATING_IPS, transport, locals, failed_at>>

NextDelete ==
    \E s \in Schedulers :
        \/ Start(s) \/ start_new(s) \/ pick_build(s) \/ prepare(s) \/ delete(s)
        \/ DeleteAgain(s)

SpecDelete == Init /\ [][NextDelete]_vars

\* ------------------------------------------------ _run_cmd and run_cmd
\* The longest remote output, in characters.
MaxOut == 4
Chars == {"a", "\n"}

\* Every output of at most n characters.
Outputs(n) == UNION {[1..k -> Chars] : k \in 0..n}

HasNewline(b) == \E i \in 1..Len(b) : b[i] = "\n"
FirstNewline(b) ==
    CHOOSE i \in 1..Len(b) : b[i] = "\n" /\ \A j \in 1..(i - 1) : b[j] # "\n"

log_first_line(b) ==
    IF HasNewline(b) THEN SubSeq(b, FirstNewline(b) + 1, Len(b)) ELSE b

\* log_whole_lines(lbuf): what it returns, and the lines it logs
RECURSIVE log_whole_lines(_)
log_whole_lines(b) ==
    IF HasNewline(b)
      THEN log_whole_lines(SubSeq(b, FirstNewline(b) + 1, Len(b)))
      ELSE b

RECURSIVE whole_lines(_)
whole_lines(b) ==
    IF HasNewline(b)
      THEN <<SubSeq(b, 1, FirstNewline(b) - 1)>>
             \o whole_lines(SubSeq(b, FirstNewline(b) + 1, Len(b)))
      ELSE <<>>

\* The statuses after which run_cmd raises 'Command %s failed'.
CommandFailed(st) == st # 0

UnchangedRuns ==
    UNCHANGED <<store, provider, keyring, USE_FLOATING_IPS, pc, locals, exc,
                history>>

\* The generator is exhausted: lbuf = log_whole_lines(lbuf); log(lbuf);
\* return out
RunReturns ==
    /\ run_pc' = "returned"
    /\ logged' = logged \o whole_lines(lbuf) \o <<log_whole_lines(lbuf)>>
    /\ lbuf' = log_whole_lines(lbuf)
    /\ returned' = out
    /\ UNCHANGED <<out, yielded>>

\* chan.recv_ready(): s = chan.recv(4096), a chunk of one character or more;
\* yield s, and the body of _run_cmd's loop: out += data; lbuf += data;
\* lbuf = log_whole_lines(lbuf)
RecvData ==
    /\ run_pc = "select"
    /\ chan # <<>>
    /\ \E k \in 1..Len(chan) :
         LET s == SubSeq(chan, 1, k) IN
           /\ chan' = SubSeq(chan, k + 1, Len(chan))
           /\ yielded' = Append(yielded, s)
           /\ out' = out \o s
           /\ lbuf' = log_whole_lines(lbuf \o s)
           /\ logged' = logged \o whole_lines(lbuf \o s)
    /\ UNCHANGED <<status, run_pc, returned>>
    /\ UnchangedRuns

\* s = chan.recv(4096) of length zero (the stream has closed): break,
\* ssh.close(), without a look at the exit status
RecvEmpty ==
    /\ run_pc = "select"
    /\ chan = <<>>
    /\ RunReturns
    /\ UNCHANGED <<chan, status>>
    /\ UnchangedRuns

\* the channel is readable with nothing to receive:
\* status = chan.recv_exit_status(); raise when it is not 0, else break
RecvExit ==
    /\ run_pc = "select"
    /\ chan = <<>>
    /\ IF CommandFailed(status)
         THEN /\ run_pc' = "raised"
              /\ out' = <<>>
              /\ lbuf' = <<>>
              /\ UNCHANGED <<logged, yielded, returned>>
         ELSE RunReturns
    /\ UNCHANGED <<chan, status>>
    /\ UnchangedRuns

\* One call of _run_cmd on a node, for any remote output and exit status.
InitRun ==
    /\ rec = [r \in Records |-> NoRecord]
    /\ node = [n \in Names |-> NoNode]
    /\ keypair_set = <<>>
    /\ servers = [v \in Schedulers |-> Null]
    /\ provider_keypairs = {}
    /\ floating_ips = {}
    /\ attached = {}
    /\ keyring = {}
    /\ USE_FLOATING_IPS = FALSE
    /\ pc = [s \in Schedulers |-> "done"]
    /\ name = [s \in Schedulers |-> Null]
    /\ signing_key_id = [s \in Schedulers |-> Null]
    /\ keypair = [s \in Schedulers |-> Null]
    /\ br = [s \in Schedulers |-> Null]
    /\ next_build = [s \in Schedulers |-> Null]
    /\ builds = [s \in Schedulers |-> {}]
    /\ exc = [s \in Schedulers |-> ""]
    /\ deletes = [s \in Schedulers |-> 0]
    /\ failed_at = [s \in Schedulers |-> ""]
    /\ chan \in Outputs(MaxOut)
    /\ status \in {0, 1}
    /\ run_pc = "select"
    /\ out = <<>>
    /\ lbuf = <<>>
    /\ logged = <<>>
    /\ yielded = <<>>
    /\ returned = <<>>

NextRun == RecvData \/ RecvEmpty \/ RecvExit

SpecRun == InitRun /\ [][NextRun]_vars

\* =================================================================== claims
NeedsBuildingRows ==
    {r \in Records : rec[r].live /\ rec[r].state = NEEDS_BUILDING}
Ended(s) == pc[s] \in {"done", "raised"}
\* the exceptions start_new raises
LeaseErrors == {"ProvisioningFailure", "Failed to spawn node"}
\* the exceptions delete() raises
DeleteErrors == {"NotFound", "CommandFailed"}
\* the BuildNode row that scheduler s persisted, if it is there
OwnRow(s) == name[s] # Null /\ node[name[s]].live /\ node[name[s]].cloud_node_id = s

\* C1: N schedulers, each with a node of its own, race pick_build against a
\* store with a single pending record: when all calls have ended exactly one
\* returned the record, the others returned None, and the record is assigned
\* to the winner's node; at no time do two callers hold the record.
C1_AtomicClaim ==
    Cardinality(NeedsBuildingRows) = 1 =>
        /\ Cardinality({s \in Schedulers : br[s] # Null}) <= 1
        /\ (\A s \in Schedulers : pc[s] \in {"prepare", "raised"}) =>
              \E w \in Schedulers : \E r \in NeedsBuildingRows :
                  /\ br[w] = r
                  /\ rec[r].build_node = name[w]
                  /\ \A s \in Schedulers \ {w} : br[s] = Null /\ pc[s] = "prepare"

C1_Witness ==
    /\ Cardinality(NeedsBuildingRows) = 1
    /\ \A s \in Schedulers : pc[s] = "prepare"
    /\ \E w \in Schedulers : br[w] # Null /\ rec[br[w]].build_node = name[w]
    /\ \E s \in Schedulers : br[s] = Null

\* C2 as stated: once a record has been claimed by a scheduler (pick_build
\* returned it), it is never again in the pending set and no other scheduler
\* claims it.
C2_ClaimedForGood ==
    \A s \in Schedulers :
        br[s] # Null =>
            /\ br[s] \notin pending_builds
            /\ \A t \in Schedulers \ {s} : br[t] # br[s]

\* C2 amended: while a record's node reference is set, the record is not a
\* candidate of any pick_build read, no conditional update assigns it a
\* different node, and the reference changes only by being cleared (or the
\* row removed) by a delete() of that very node.
C2_ClaimedUntilNodeDeleted ==
    [][\A r \in Records :
         (rec[r].live /\ rec[r].build_node # Null) =>
            /\ \A s \in Schedulers :
                   next_build'[s] = r => next_build[s] = r
            /\ \/ rec'[r].build_node = rec[r].build_node
               \/ /\ rec'[r].build_node = Null
                  /\ \E s \in Schedulers :
                        /\ pc[s] \in {"del_refs", "del_row"}
                        /\ name[s] = rec[r].build_node]_vars

\* a scheduler attempts the conditional update on a record another scheduler
\* has claimed meanwhile
C2_Witness ==
    \E a, b \in Schedulers :
        /\ a # b
        /\ pc[b] = "pick_update"
        /\ br[a] = next_build[b]
        /\ rec[br[a]].build_node = name[a]
        /\ name[a] # name[b]

\* C3: the record pick_build returns (and the one it attempts to claim) has
\* the highest priority among the records of the candidate read of that
\* iteration.
C3_HighestPriority ==
    \A s \in Schedulers :
        /\ pc[s] \in {"pick_update", "pick_get"} =>
              /\ next_build[s] \in builds[s]
              /\ \A q \in builds[s] :
                     rec[next_build[s]].priority >= rec[q].priority
        /\ (pc[s] = "prepare" /\ br[s] # Null) =>
              /\ br[s] \in builds[s]
              /\ \A q \in builds[s] : rec[br[s]].priority >= rec[q].priority

C3_Witness ==
    \E s \in Schedulers :
        /\ pc[s] = "prepare"
        /\ br[s] # Null
        /\ rec[br[s]].priority = 50
        /\ \E q \in builds[s] : rec[q].priority = 10
        /\ \E q \in builds[s] : q < br[s]
        /\ \E q \in builds[s] : q > br[s]

\* C4: no BuildNode is referenced by two non-terminal BuildRecords.
C4_OneRecordPerNode ==
    \A n \in Names :
        Cardinality({r \in Records :
                        /\ rec[r].live
                        /\ rec[r].build_node = n
                        /\ rec[r].state \in {NEEDS_BUILDING, BUILDING}}) <= 1

\* C5: when a run whose prepare failed has ended, the record it claimed is in
\* state NeedsBuilding and unassigned (or claimed anew by another scheduler).
C5_BackToPending ==
    \A s \in Schedulers :
        (Ended(s) /\ failed_at[s] # "" /\ br[s] # Null) =>
            /\ rec[br[s]].live
            /\ rec[br[s]].state = NEEDS_BUILDING
            /\ \/ rec[br[s]].build_node = Null
               \/ \E t \in Schedulers \ {s} :
                     br[t] = br[s] /\ rec[br[s]].build_node = name[t]

\* C6: prepare does not raise, and when it has returned either the node is
\* Ready (row and server there) or its server is deleted and its row absent.
C6_AllOrNothing ==
    \A s \in Schedulers :
        /\ (pc[s] = "raised" /\ deletes[s] = 1) => exc[s] \notin DeleteErrors
        /\ pc[s] = "prepare_returned" =>
              \/ /\ failed_at[s] = ""
                 /\ OwnRow(s)
                 /\ node[name[s]].state = NODE_READY
                 /\ servers[s] # Null
              \/ /\ servers[s] = Null
                 /\ ~OwnRow(s)

\* C7: after a bootstrap failure at or after key generation, once the failure
\* handling is over, the node is deleted, no record refers to it and the
\* keyring holds no key of it.
C7_FailureIsolated ==
    \A s \in Schedulers :
        (/\ failed_at[s] \in {"keygen", "export", "import"}
         /\ pc[s] \in {"prepare_returned", "raised"}) =>
            /\ servers[s] = Null
            /\ ~OwnRow(s)
            /\ \A r \in Records :
                  ~(rec[r].live /\ rec[r].build_node = name[s] /\ br[s] = r)
            /\ s \notin keyring

\* C8, on the success path: when a run that leased a node and whose
\* prepare went through has ended, the node's server is deleted, its key
\* revoked and its BuildNode row removed.
C8_TornDown ==
    \A s \in Schedulers :
        (/\ Ended(s)
         /\ name[s] # Null
         /\ exc[s] \notin LeaseErrors
         /\ failed_at[s] = "") =>
            /\ servers[s] = Null
            /\ s \notin keyring
            /\ ~OwnRow(s)

\* C9: a delete() called again on the node does not raise and leaves no
\* record referring to the node and no BuildNode row.
C9_IdempotentDelete ==
    \A s \in Schedulers :
        (deletes[s] >= 2 /\ pc[s] \in {"prepare_returned", "raised"}) =>
            /\ exc[s] = ""
            /\ ~OwnRow(s)
            /\ \A r \in Records :
                  ~(rec[r].live /\ rec[r].build_node = name[s] /\ br[s] = r)

\* C10: a start_new whose address attachment never succeeded raises, with
\* its server and its address deleted and no BuildNode row of it; a row in
\* state New exists only for a server whose address is attached, or with
\* floating addresses disabled; a run holding an unattached address is
\* attaching it or on the way to raising.
C10_AttachOrFail ==
    /\ \A s \in Schedulers :
          exc[s] = "Failed to spawn node" =>
              /\ pc[s] = "raised"
              /\ servers[s] = Null
              /\ s \notin floating_ips
              /\ \A n \in Names : ~(node[n].live /\ node[n].cloud_node_id = s)
    /\ \A s \in Schedulers :
          (s \in floating_ips /\ s \notin attached) =>
              pc[s] \in {"sn_attach", "sn_fail_server", "sn_fail_floating_ip"}
    /\ \A n \in Names :
          (node[n].live /\ node[n].state = NODE_NEW) =>
              \/ ~USE_FLOATING_IPS
              \/ node[n].cloud_node_id \in attached

C10_Witness ==
    \E s \in Schedulers :
        /\ exc[s] = "Failed to spawn node"
        /\ \E t \in Schedulers : OwnRow(t) /\ t \in attached

\* C11: when start_new has raised after creating provider resources, no
\* server and no floating address created by that call remains at the
\* provider and no BuildNode row of it remains.
C11_LeaseCompensated ==
    \A s \in Schedulers :
        (pc[s] = "raised" /\ exc[s] \in LeaseErrors) =>
            /\ servers[s] = Null
            /\ s \notin floating_ips
            /\ \A n \in Names : ~(node[n].live /\ node[n].cloud_node_id = s)

\* C12: with the calls of start_new one after another, at most one KeyPair
\* ever exists for the cloud, at the provider and in the store; a call that
\* got past its keypair section holds the one cached KeyPair, and every
\* server was created with it.
C12_KeypairReuse ==
    /\ Len(keypair_set) <= 1
    /\ Cardinality(provider_keypairs) <= 1
    /\ \A s \in Schedulers :
          (\/ pc[s] \in {"sn_name", "sn_server", "sn_floating_ip", "sn_attach",
                         "sn_fail_server", "sn_fail_floating_ip", "sn_save",
                         "pick_read"}
           \/ servers[s] # Null) =>
              /\ Len(keypair_set) = 1
              /\ provider_keypairs = {Head(keypair_set)}
              /\ keypair[s] = Head(keypair_set)

\* a second call has created its server with the KeyPair the first created
C12_Witness ==
    \E a, b \in Schedulers :
        /\ a # b
        /\ servers[a] # Null /\ servers[b] # Null
        /\ keypair_set = <<a>>
        /\ keypair[a] = a /\ keypair[b] = a
        /\ provider_keypairs = {a}

\* the chunks of a sequence of chunks, end to end
RECURSIVE Joined(_)
Joined(chunks) ==
    IF chunks = <<>> THEN <<>> ELSE Head(chunks) \o Joined(Tail(chunks))

\* C13: run_cmd raises its command-failed error exactly when the exit status
\* of the remote command is not zero: a call that returned had status zero
\* and a call that raised had a non-zero status.
C13_FailsIffNonZero ==
    /\ run_pc = "returned" => status = 0
    /\ run_pc = "raised" => status # 0

\* C14: when the command failure is raised after output was received, the
\* caller of _run_cmd holds every chunk received before the failure.
C14_PartialOutputKept ==
    (run_pc = "raised" /\ yielded # <<>>) => returned = Joined(yielded)

\* C15: a run that leased a node calls prepare (and then build) on it with
\* a BuildRecord claimed for that node: at the call the record is there and
\* its assigned node is the leased one.
C15_PreparesClaimedRecord ==
    \A s \in Schedulers :
        pc[s] = "prepare" =>
            /\ br[s] # Null
            /\ rec[br[s]].live
            /\ rec[br[s]].build_node = name[s]

\* build() was called on the node of scheduler s and has ended: the one
\* step of build in the runs is the raise of its first statement.
BuildEnded(s) == pc[s] = "raised" /\ exc[s] = update_state_error

\* the run of scheduler s reached the end of perform_single_build or left it
\* by an exception of build, after a prepare that went through for a
\* claimed record
BuiltFor(s) ==
    /\ Ended(s)
    /\ name[s] # Null
    /\ br[s] # Null
    /\ failed_at[s] = ""
    /\ exc[s] \in {"", update_state_error}

\* C16: when build(record) is over, it has returned, no exception having
\* escaped it, the record is SuccessfullyBuilt and the node ShuttingDown.
C16_BuildOutcome ==
    \A s \in Schedulers :
        BuiltFor(s) =>
            /\ exc[s] = ""
            /\ rec[br[s]].state = SUCCESFULLY_BUILT
            /\ node[name[s]].state = NODE_SHUTTING_DOWN

\* C17: once build(record) was entered on a Ready node, the row of this
\* node is in state Building (or, later, ShuttingDown) and the record in
\* state Building (or, later, SuccessfullyBuilt).
C17_BuildStart ==
    \A s \in Schedulers :
        (BuildEnded(s) /\ br[s] # Null /\ failed_at[s] = "") =>
            /\ node[name[s]].live
            /\ node[name[s]].state \in {NODE_BUILDING, NODE_SHUTTING_DOWN}
            /\ rec[br[s]].state \in {BUILDING, SUCCESFULLY_BUILT}

Changed == {r \in Records : rec'[r] # rec[r]}

\* C19: a step of pick_build touches nothing of the store but BuildRecord
\* rows; the only step that changes a row is the conditional update that
\* matched, which sets the assigned node of the one record of the attempt
\* and changes nothing else, after which the call returns; the reads, a
\* return of None and an update that matched nothing leave the store as it
\* was.
C19_SingleStatement ==
    [][/\ UNCHANGED <<node, keypair_set>>
       /\ Cardinality(Changed) <= 1
       /\ \A r \in Changed :
             rec'[r] = [rec[r] EXCEPT !.build_node = rec'[r].build_node]
       /\ \A s \in Schedulers :
             pc'[s] # pc[s] =>
                IF pc[s] = "pick_update" /\ pc'[s] = "pick_get"
                  THEN /\ Changed = {next_build[s]}
                       /\ rec[next_build[s]].build_node = Null
                       /\ rec'[next_build[s]].build_node = name[s]
                  ELSE /\ Changed = {}
                       /\ pc[s] = "pick_get" => pc'[s] \in {"prepare", "raised"}]_vars

\* one caller's update went through and another's, on the same record,
\* matched nothing
C19_Witness ==
    \E s, t \in Schedulers :
        /\ s # t
        /\ pc[s] = "pick_get"
        /\ rec[next_build[s]].build_node = name[s]
        /\ pc[t] = "pick_read"
        /\ next_build[t] = next_build[s]

\* C20: the row of a node keeps its state or moves to the next one of
\* New, Booting, Preparing, Ready, Building, ShuttingDown (or is deleted),
\* and build() is never called on a node whose prepare failed and deleted
\* it.
C20_OneDirectional ==
    /\ [][\A n \in Names :
            (/\ node[n].live
             /\ node'[n].live
             /\ node'[n].cloud_node_id = node[n].cloud_node_id) =>
                node'[n].state \in {node[n].state, node[n].state + 1}]_vars
    /\ [](\A s \in Schedulers : BuildEnded(s) => failed_at[s] = "")

\* C21: a run leaves the connectivity wait only by a probe that went
\* through, and only that step writes Preparing; the republish is called
\* only from the step that persisted the node as Ready, with the node's
\* signing key in the local keyring; and it is never called in a prepare
\* whose failure handler has run.
C21_PrepareOrdering ==
    [][/\ \A n \in Names :
            (/\ node'[n].live
             /\ node'[n].state = NODE_PREPARING
             /\ ~(node[n].live /\ node[n].state = NODE_PREPARING)) =>
                \E s \in Schedulers :
                    /\ name[s] = n
                    /\ pc[s] = "prep_id"
                    /\ pc'[s] = "prep_cmds"
       /\ \A s \in Schedulers :
         /\ (pc[s] = "prep_id" /\ pc'[s] # "prep_id") =>
               /\ pc'[s] = "prep_cmds"
               /\ servers[s] # Null
               /\ node'[name[s]].live
               /\ node'[name[s]].state = NODE_PREPARING
         /\ (pc'[s] = "prep_publish" /\ pc[s] # "prep_publish") =>
               /\ pc[s] = "prep_ready"
               /\ signing_key_id[s] # Null
               /\ signing_key_id[s] \in keyring
               /\ node'[name[s]].live
               /\ node'[name[s]].state = NODE_READY
               /\ node'[name[s]].signing_key_id = signing_key_id[s]
         /\ pc[s] = "prep_publish" => failed_at[s] = ""
         /\ failed_at[s] # "" => pc'[s] # "prep_publish"]_vars

\* a prepare has returned after its republish went through, the node
\* Ready and its key in the keyring
C21_Witness ==
    \E s \in Schedulers :
        /\ pc[s] = "prepare_returned"
        /\ failed_at[s] = ""
        /\ signing_key_id[s] \in keyring
        /\ OwnRow(s)
        /\ node[name[s]].state = NODE_READY

\* C22: a run in the connectivity wait leaves it only by a probe that went
\* through, never towards delete(); and as long as it waits, its node's row
\* is in state Booting and the record it claimed is assigned to its node.
C22_UnboundedWait ==
    /\ [][\A s \in Schedulers :
            pc[s] = "prep_id" =>
                /\ pc'[s] \in {"prep_id", "prep_cmds"}
                /\ pc'[s] = "prep_cmds" => servers[s] # Null
                /\ deletes'[s] = 0]_vars
    /\ [](\A s \in Schedulers :
            pc[s] = "prep_id" =>
                /\ node[name[s]].live
                /\ node[name[s]].state = NODE_BOOTING
                /\ br[s] # Null =>
                      /\ rec[br[s]].live
                      /\ rec[br[s]].build_node = name[s])

\* C23: at the step that completes delete(), the removal of the BuildNode
\* row, the node's floating address is detached and released, its server is
\* deleted, its signing key, if one was recorded, is not in the keyring, the
\* row is gone, and every BuildRecord that referred to the node is still
\* there, in its state, with no node assigned; the row is removed by no
\* earlier step of delete().
C23_DeletePost ==
    [][\A s \in Schedulers :
         /\ (pc[s] = "del_row" /\ pc'[s] # "del_row") =>
               /\ pc'[s] = "prepare_returned"
               /\ s \notin floating_ips' /\ s \notin attached'
               /\ servers'[s] = Null
               /\ signing_key_id[s] # Null => signing_key_id[s] \notin keyring'
               /\ ~node'[name[s]].live
               /\ \A r \in Records :
                     rec[r].live =>
                        /\ rec'[r].live
                        /\ rec'[r].state = rec[r].state
                        /\ rec'[r].build_node # name[s]
         /\ (pc[s] \in {"del_floating_ip", "del_server", "del_key", "del_refs"}
               /\ pc'[s] # pc[s]) =>
               node'[name[s]] = node[name[s]]]_vars

\* C24: no two live servers have the same name, the server a start_new
\* creates gets a name no live server and no BuildNode row has, and the
\* bn.save() of a start_new inserts a row, overwriting none.
C24_UniqueNames ==
    /\ [](\A s, t \in Schedulers :
            (s # t /\ servers[s] # Null /\ servers[t] # Null) =>
                servers[s] # servers[t])
    /\ [][\A s \in Schedulers :
            /\ (pc[s] = "sn_server" /\ servers'[s] # servers[s]) =>
                  name[s] \notin names_to_avoid
            /\ (pc[s] = "sn_save" /\ pc'[s] # "sn_save") =>
                  ~node[name[s]].live]_vars

\* lines joined with newline characters
RECURSIVE JoinLines(_)
JoinLines(lines) ==
    IF lines = <<>> THEN <<>>
    ELSE IF Len(lines) = 1 THEN lines[1]
    ELSE lines[1] \o <<"\n">> \o JoinLines(Tail(lines))

\* C25: however the output is cut into chunks, at every moment of the
\* call the lines logged so far are the complete lines of the output
\* received so far, once each and in order, none waiting for a later chunk
\* (the buffer holds no newline); when the call has returned, it returned
\* the chunks end to end, the whole output of the command, and the lines
\* logged, the trailing partial line last, joined with newlines are that
\* output.
C25_LineBuffered ==
    /\ run_pc = "select" =>
          /\ out = Joined(yielded)
          /\ ~HasNewline(lbuf)
          /\ \A i \in 1..Len(logged) : ~HasNewline(logged[i])
          /\ JoinLines(Append(logged, lbuf)) = out
    /\ run_pc = "returned" =>
          /\ chan = <<>>
          /\ returned = Joined(yielded)
          /\ \A i \in 1..Len(logged) : ~HasNewline(logged[i])
          /\ JoinLines(logged) = returned

\* a call returned an output of two lines and a partial third that came in
\* more than one chunk, one chunk ending inside a line
C25_Witness ==
    /\ run_pc = "returned"
    /\ returned = <<"a", "\n", "\n", "a">>
    /\ Len(yielded) = 2
    /\ logged = << <<"a">>, <<>>, <<"a">> >>

\* C26: the state of a BuildRecord is written only to Building or
\* SuccessfullyBuilt, by the run that holds the record and whose prepare
\* went through, its node's row Ready or beyond; a run whose prepare failed
\* and deleted the node writes the state of no record.
C26_BuiltOnlyAfterReady ==
    [][/\ \A r \in Records :
            (rec[r].live /\ rec'[r].live /\ rec'[r].state # rec[r].state) =>
                /\ rec'[r].state \in {BUILDING, SUCCESFULLY_BUILT}
                /\ \E s \in Schedulers :
                      /\ br[s] = r
                      /\ pc[s] = "prepare_returned"
                      /\ pc'[s] # pc[s]
                      /\ failed_at[s] = ""
                      /\ node[name[s]].live
                      /\ node[name[s]].state >= NODE_READY
       /\ \A s \in Schedulers :
            (failed_at[s] # "" /\ pc'[s] # pc[s]) =>
                \A r \in Records :
                    rec'[r].live => rec'[r].state = rec[r].state]_vars

\* build() was called after a prepare that failed and deleted the node, and
\* the record of the run is as it was, NeedsBuilding
C26_Witness ==
    \E s \in Schedulers :
        /\ BuildEnded(s)
        /\ failed_at[s] # ""
        /\ ~OwnRow(s)
        /\ br[s] # Null
        /\ rec[br[s]].live
        /\ rec[br[s]].state = NEEDS_BUILDING

C28_SingleWriter ==
    [][\A r \in Records :
         (rec[r].live /\ rec'[r].live /\ rec'[r].state # rec[r].state) =>
             \E s \in Schedulers :
                 /\ pc'[s] # pc[s]
                 /\ br[s] = r
                 /\ rec[r].build_node = name[s]
                 /\ OwnRow(s)]_vars

\* build() was called by a run whose node was deleted, on a record that
\* another scheduler has since claimed for a node of another name, and the
\* record's state is as it was
C28_Witness ==
    \E a, b \in Schedulers :
        /\ a # b
        /\ name[a] # name[b]
        /\ BuildEnded(a)
        /\ failed_at[a] # ""
        /\ br[a] # Null
        /\ br[b] = br[a]
        /\ rec[br[a]].live
        /\ rec[br[a]].build_node = name[b]
        /\ rec[br[a]].state = NEEDS_BUILDING

\* C29: with concurrent calls of start_new the cloud has at most one
\* KeyPair row, and every server was created with the key pair the
\* transport uses for it, the first KeyPair of the cloud.
C29_OneKeypair ==
    /\ Len(keypair_set) <= 1
    /\ \A s \in Schedulers :
          servers[s] # Null => keypair[s] = Head(keypair_set)

\* the run of scheduler s leased a node and pick_build returned None to it
LostRace(s) ==
    /\ name[s] # Null
    /\ br[s] = Null
    /\ pc[s] \notin {"start", "done", "sn_keypair", "sn_keypair_create",
                     "sn_name", "sn_server", "sn_floating_ip", "sn_attach",
                     "sn_fail_server", "sn_fail_floating_ip", "sn_save",
                     "pick_read", "pick_update", "pick_get"}
    /\ exc[s] \notin LeaseErrors \cup {"DoesNotExist"}

\* C30: a run that lost the claim race changes no BuildRecord, and when it
\* has ended its server is deleted and no BuildNode row of it is left.
C30_LostRaceCleansUp ==
    /\ [][\A s \in Schedulers :
            (LostRace(s) /\ pc'[s] # pc[s]) => rec' = rec]_vars
    /\ [](\A s \in Schedulers :
            (LostRace(s) /\ Ended(s)) =>
                /\ servers[s] = Null
                /\ s \notin floating_ips
                /\ ~OwnRow(s))

====
